---- MODULE Spec2Model ----
(***************************************************************************)
(* WeakRefMap and WeakRefSet (src/index.js): a Map and a Set that wrap     *)
(* every object payload in a WeakRef, register it with a                   *)
(* FinalizationRegistry and purge the row when the payload is collected.   *)
(*                                                                         *)
(* A JavaScript value is the record [h, v]:                                *)
(*   h = 0  : the value named v, a primitive or a caller's object;         *)
(*   h > 0  : the WeakRef number h the container created, v its referent.  *)
(* The heap is the set `alive` of the objects not yet collected.  The      *)
(* garbage collector (Reclaim) and the registry's cleanup callbacks        *)
(* (Finalize...) run between the caller's calls, in any order.             *)
(***************************************************************************)
EXTENDS Naturals, Sequences, FiniteSets

\* Number of WeakRef handles one run may create (each `new WeakRef` is fresh).
MaxRefs == 3

Undefined == "undefined"
Null == "null"
\* The primitive payloads the caller passes.
Prim == {Undefined, Null, "p"}
\* The heap objects of the caller: o1 a plain object, w a WeakRef the caller
\* created itself (test 'can set a value to a WeakRef').
Obj == {"o1", "w"}
\* The keys the caller uses on the map: a string and an object.
Keys == {"a", "o1"}
Values == Prim \cup Obj

VARIABLES
  self,         \* which container the program constructed
  alive,        \* heap objects not yet garbage collected
  nextRef,      \* number of the next WeakRef the container creates
  mapData,      \* WeakRefMap: rows of the underlying Map, in insertion order
  weakRefs,     \* WeakRefMap.#weakRefs: numbers of the tracked handles
  registry,     \* WeakRefMap.#registry: its registered cells
  oldRegistry,  \* cells of the registries WeakRefMap.clear() replaced
  setData,      \* WeakRefSet: elements of the underlying Set, in order
  membership,   \* WeakRefSet.#membership: handles by referent
  setRegistry,  \* WeakRefSet.#registry: its registered cells
  oldSetRegistry, \* cells of the registries WeakRefSet.clear() replaced
  ret,          \* what the last call returned (or the error it threw)
  iter,         \* open default iterator: index of the next row, 0 when none
  yielded,      \* what the iterator's last next() produced
  overwrote,    \* history: per key, <<v1, v2>> when set(k, v2) replaced object v1
  deleted,      \* history: per key, the object whose tracked slot delete removed
  cancelled,    \* history: handles whose registration delete cancelled
  plainMap,     \* a plain Map run side by side on the same calls
  plainSet,     \* a plain Set run side by side on the same calls
  plainRet,     \* what the plain container's last call returned
  last,         \* history: the last call or notification, and whether it met a row
  pass1         \* history: what the first of two iteration passes yielded

probe == <<last, pass1>>
hist == <<overwrote, deleted, cancelled, probe>>
plain == <<plainMap, plainSet, plainRet>>
vars == <<self, alive, nextRef, mapData, weakRefs, registry, oldRegistry,
          setData, membership, setRegistry, oldSetRegistry, ret, iter, yielded,
          overwrote, deleted, cancelled, plainMap, plainSet, plainRet,
          last, pass1>>
mapVars == <<mapData, weakRefs, registry, oldRegistry>>
setVars == <<setData, membership, setRegistry, oldSetRegistry>>

----------------------------------------------------------------------------
\* Values, WeakRef and WeakSet

V(x) == [h |-> 0, v |-> x]
Ref(n, o) == [h |-> n, v |-> o]
IsRef(s) == s.h > 0
\* typeof value === 'object' (null included)
TypeofObject(x) == x \in Obj \cup {Null}
\* typeof value === 'object' && value !== null
IsObject(x) == TypeofObject(x) /\ x # Null

\* WeakRef.prototype.deref
Deref(s) == IF s.v \in alive THEN V(s.v) ELSE V(Undefined)

\* What the caller can pass: a primitive, or an object it still holds.
Passable(x) == x \notin Obj \/ x \in alive

RECURSIVE Without(_, _)
\* seq with its i-th element removed
Without(seq, i) ==
  IF seq = <<>> THEN <<>>
  ELSE IF i = 1 THEN Tail(seq)
  ELSE <<Head(seq)>> \o Without(Tail(seq), i - 1)

----------------------------------------------------------------------------
\* The underlying Map (super of WeakRefMap): rows [key, slot]

HasKey(st, k) == \E i \in 1..Len(st) : st[i].key = k
IndexOf(st, k) == CHOOSE i \in 1..Len(st) : st[i].key = k
\* Map.prototype.get: undefined for a missing key
SuperGet(st, k) == IF HasKey(st, k) THEN st[IndexOf(st, k)].slot ELSE V(Undefined)
\* Map.prototype.set: an existing key keeps its place, a new key goes last
SuperSet(st, k, s) ==
  IF HasKey(st, k)
    THEN [st EXCEPT ![IndexOf(st, k)] = [key |-> k, slot |-> s]]
    ELSE Append(st, [key |-> k, slot |-> s])
\* Map.prototype.delete
SuperDelete(st, k) == IF HasKey(st, k) THEN Without(st, IndexOf(st, k)) ELSE st
\* An open iterator of the underlying Map keeps its place when a row before
\* it is deleted.
ShiftIter(st, k) ==
  IF iter > 0 /\ HasKey(st, k) /\ IndexOf(st, k) < iter THEN iter - 1 ELSE iter
\* After clear() an open iterator goes on with the rows added later.
ResetIter == IF iter > 0 THEN 1 ELSE 0

\* this.#weakRefs.has(value)
Tracked(s) == IsRef(s) /\ s.h \in weakRefs
\* A WeakSet drops a handle nothing references any more.
Held(ws, st) == {n \in ws : \E i \in 1..Len(st) : st[i].slot.h = n}

\* FinalizationRegistry.prototype.unregister(token)
Unregister(cells, n) == {c \in cells : c.token # n}

----------------------------------------------------------------------------
\* WeakRefMap

\* get(key)
MapGet(k) ==
  LET value == SuperGet(mapData, k)
  IN  IF Tracked(value) THEN Deref(value) ELSE value

\* has(key) collapsed onto get(key)
MapHas_ViaGet(k) == MapGet(k) # V(Undefined)

\* has(key)
MapHas(k) ==
  LET value == SuperGet(mapData, k)
  IN  IF Tracked(value) THEN Deref(value) # V(Undefined) ELSE HasKey(mapData, k)

\* set(key, value) that removes the old row before writing the new one
MapSet_DeleteFirst(k, v) ==
  LET oldValue == SuperGet(mapData, k)
      reg1 == IF Tracked(oldValue) THEN Unregister(registry, oldValue.h) ELSE registry
      wr1  == IF Tracked(oldValue) THEN weakRefs \ {oldValue.h} ELSE weakRefs
  IN  /\ self = "WeakRefMap"
      /\ Passable(k) /\ Passable(v)
      /\ IF IsObject(v)
           THEN /\ nextRef <= MaxRefs
                /\ IF v = k
                     THEN /\ registry' = reg1
                          /\ weakRefs' = wr1
                          /\ ret' = "TypeError"
                          /\ UNCHANGED <<mapData, nextRef>>
                     ELSE /\ registry' = reg1 \cup
                               {[target |-> v, held |-> k, token |-> nextRef]}
                          /\ weakRefs' = wr1 \cup {nextRef}
                          /\ mapData' = SuperSet(SuperDelete(mapData, k), k,
                                                 Ref(nextRef, v))
                          /\ nextRef' = nextRef + 1
                          /\ ret' = "this"
           ELSE /\ registry' = reg1
                /\ weakRefs' = wr1
                /\ mapData' = SuperSet(SuperDelete(mapData, k), k, V(v))
                /\ ret' = "this"
                /\ UNCHANGED nextRef
      /\ UNCHANGED <<self, alive, oldRegistry, setVars, iter, yielded>>

\* set(key, value).  register(value, key, ref) throws a TypeError when the
\* target and the held value are the same object, after the old handle was
\* unregistered and before the row is written.
MapSet(k, v) ==
  LET oldValue == SuperGet(mapData, k)
      reg1 == IF Tracked(oldValue) THEN Unregister(registry, oldValue.h) ELSE registry
      wr1  == IF Tracked(oldValue) THEN weakRefs \ {oldValue.h} ELSE weakRefs
  IN  /\ self = "WeakRefMap"
      /\ Passable(k) /\ Passable(v)
      /\ IF IsObject(v)
           THEN /\ nextRef <= MaxRefs
                /\ IF v = k
                     THEN /\ registry' = reg1
                          /\ weakRefs' = wr1
                          /\ ret' = "TypeError"
                          /\ UNCHANGED <<mapData, nextRef>>
                     ELSE /\ registry' = reg1 \cup
                               {[target |-> v, held |-> k, token |-> nextRef]}
                          /\ weakRefs' = wr1 \cup {nextRef}
                          /\ mapData' = SuperSet(mapData, k, Ref(nextRef, v))
                          /\ nextRef' = nextRef + 1
                          /\ ret' = "this"
           ELSE /\ registry' = reg1
                /\ weakRefs' = wr1
                /\ mapData' = SuperSet(mapData, k, V(v))
                /\ ret' = "this"
                /\ UNCHANGED nextRef
      /\ UNCHANGED <<self, alive, oldRegistry, setVars, iter, yielded>>

\* delete(key) without the super.delete(key) of the tracked branch
MapDelete_KeepsRow(k) ==
  LET value == SuperGet(mapData, k)
  IN  /\ self = "WeakRefMap"
      /\ Passable(k)
      /\ IF Tracked(value)
           THEN /\ registry' = Unregister(registry, value.h)
                /\ weakRefs' = weakRefs \ {value.h}
                /\ ret' = IF Deref(value) = V(Undefined) THEN "false" ELSE "true"
                /\ UNCHANGED <<mapData, iter>>
           ELSE /\ ret' = IF HasKey(mapData, k) THEN "true" ELSE "false"
                /\ mapData' = SuperDelete(mapData, k)
                /\ iter' = ShiftIter(mapData, k)
                /\ UNCHANGED <<registry, weakRefs>>
      /\ UNCHANGED <<self, alive, nextRef, oldRegistry, setVars, yielded>>

\* delete(key) without the unregister of the tracked branch
MapDelete_NoUnregister(k) ==
  LET value == SuperGet(mapData, k)
  IN  /\ self = "WeakRefMap"
      /\ Passable(k)
      /\ IF Tracked(value)
           THEN /\ weakRefs' = weakRefs \ {value.h}
                /\ ret' = IF Deref(value) = V(Undefined) THEN "false" ELSE "true"
                /\ UNCHANGED registry
           ELSE /\ ret' = IF HasKey(mapData, k) THEN "true" ELSE "false"
                /\ UNCHANGED <<registry, weakRefs>>
      /\ mapData' = SuperDelete(mapData, k)
      /\ iter' = ShiftIter(mapData, k)
      /\ UNCHANGED <<self, alive, nextRef, oldRegistry, setVars, yielded>>

\* delete(key) whose tracked branch returns what super.delete(key) returns
MapDelete_ReturnsSuper(k) ==
  LET value == SuperGet(mapData, k)
  IN  /\ self = "WeakRefMap"
      /\ Passable(k)
      /\ IF Tracked(value)
           THEN /\ registry' = Unregister(registry, value.h)
                /\ weakRefs' = weakRefs \ {value.h}
           ELSE UNCHANGED <<registry, weakRefs>>
      /\ ret' = IF HasKey(mapData, k) THEN "true" ELSE "false"
      /\ mapData' = SuperDelete(mapData, k)
      /\ iter' = ShiftIter(mapData, k)
      /\ UNCHANGED <<self, alive, nextRef, oldRegistry, setVars, yielded>>

\* delete(key)
MapDelete(k) ==
  LET value == SuperGet(mapData, k)
  IN  /\ self = "WeakRefMap"
      /\ Passable(k)
      /\ IF Tracked(value)
           THEN /\ registry' = Unregister(registry, value.h)
                /\ weakRefs' = weakRefs \ {value.h}
                /\ ret' = IF Deref(value) = V(Undefined) THEN "false" ELSE "true"
           ELSE /\ ret' = IF HasKey(mapData, k) THEN "true" ELSE "false"
                /\ UNCHANGED <<registry, weakRefs>>
      /\ mapData' = SuperDelete(mapData, k)
      /\ iter' = ShiftIter(mapData, k)
      /\ UNCHANGED <<self, alive, nextRef, oldRegistry, setVars, yielded>>

\* clear() without the super.clear()
MapClear_KeepsRows ==
  /\ self = "WeakRefMap"
  /\ oldRegistry' = oldRegistry \cup registry
  /\ registry' = {}
  /\ weakRefs' = {}
  /\ ret' = Undefined
  /\ UNCHANGED <<self, alive, nextRef, mapData, iter, setVars, yielded>>

\* clear(): a new registry and a new WeakSet; the old registry is dropped
\* with its cells still registered.
MapClear ==
  /\ self = "WeakRefMap"
  /\ oldRegistry' = oldRegistry \cup registry
  /\ registry' = {}
  /\ weakRefs' = {}
  /\ mapData' = <<>>
  /\ ret' = Undefined
  /\ iter' = ResetIter
  /\ UNCHANGED <<self, alive, nextRef, setVars, yielded>>

\* A cleanup callback that deletes nothing
MapCleanup_Nothing(key) == UNCHANGED <<mapData, weakRefs, iter>>

\* A cleanup callback that empties the storage
MapCleanup_Clears(key) ==
  /\ mapData' = <<>>
  /\ weakRefs' = {}
  /\ iter' = ResetIter

\* A cleanup callback that forgets the handle and keeps the row
MapCleanup_Untracks(key) ==
  /\ weakRefs' = weakRefs \ {SuperGet(mapData, key).h}
  /\ UNCHANGED <<mapData, iter>>

\* What the cleanup callback does: key => super.delete(key)
MapCleanup(key) ==
  /\ mapData' = SuperDelete(mapData, key)
  /\ weakRefs' = Held(weakRefs, mapData')
  /\ iter' = ShiftIter(mapData, key)

\* #registry runs its callback for a cell whose target was collected.
MapFinalize(c) ==
  /\ c \in registry
  /\ c.target \notin alive
  /\ registry' = registry \ {c}
  /\ MapCleanup(c.held)
  /\ UNCHANGED <<self, alive, nextRef, oldRegistry, setVars, ret, yielded>>

\* The same callback, run by a registry that clear() replaced.
MapFinalizeOld(c) ==
  /\ c \in oldRegistry
  /\ c.target \notin alive
  /\ oldRegistry' = oldRegistry \ {c}
  /\ MapCleanup(c.held)
  /\ UNCHANGED <<self, alive, nextRef, registry, setVars, ret, yielded>>

\* A replaced registry is garbage itself: its cells may vanish unfired.
MapDropOld(c) ==
  /\ c \in oldRegistry
  /\ oldRegistry' = oldRegistry \ {c}
  /\ UNCHANGED <<self, alive, nextRef, mapData, weakRefs, registry, setVars,
                 ret, iter, yielded>>

\* The loop body without the check that deref() returned an object
MapYield_NoLiveCheck(row) ==
  IF Tracked(row.slot)
    THEN <<[key |-> row.key, value |-> Deref(row.slot)]>>
    ELSE <<[key |-> row.key, value |-> row.slot]>>

\* One turn of the default iterator's loop on a row: what it yields, if
\* anything.
MapYield(row) ==
  IF Tracked(row.slot)
    THEN IF Deref(row.slot) # V(Undefined)
           THEN <<[key |-> row.key, value |-> Deref(row.slot)]>>
           ELSE <<>>
    ELSE <<[key |-> row.key, value |-> row.slot]>>

RECURSIVE MapPass(_)
MapPass(i) ==
  IF i > Len(mapData) THEN <<>> ELSE MapYield(mapData[i]) \o MapPass(i + 1)
\* [Symbol.iterator]() and entries() run to the end
MapEntries == MapPass(1)
\* values()
MapValues == [i \in 1..Len(MapEntries) |-> MapEntries[i].value]
\* keys() is not overridden: Map.prototype.keys over the raw rows
MapKeys == [i \in 1..Len(mapData) |-> mapData[i].key]

\* size is not overridden: Map.prototype.size counts the raw rows
MapSize == Len(mapData)

----------------------------------------------------------------------------
\* The underlying Set (super of WeakRefSet): elements in insertion order

HasElem(st, s) == \E i \in 1..Len(st) : st[i] = s
ElemIndex(st, s) == CHOOSE i \in 1..Len(st) : st[i] = s
\* Set.prototype.add
SuperAdd(st, s) == IF HasElem(st, s) THEN st ELSE Append(st, s)
\* Set.prototype.delete
SuperRemove(st, s) == IF HasElem(st, s) THEN Without(st, ElemIndex(st, s)) ELSE st
ShiftSetIter(st, s) ==
  IF iter > 0 /\ HasElem(st, s) /\ ElemIndex(st, s) < iter THEN iter - 1 ELSE iter

\* this.#membership.has(value): a WeakMap has no primitive keys
Member(x) == \E m \in membership : m.v = x
\* this.#membership.get(value)
MemberRef(x) == CHOOSE m \in membership : m.v = x

----------------------------------------------------------------------------
\* WeakRefSet

\* has(value)
SetHas(x) ==
  IF IsObject(x)
    THEN Member(x) /\ Deref(MemberRef(x)) # V(Undefined)
    ELSE HasElem(setData, V(x))

\* add(value) without the membership check
SetAdd_NoSkip(x) ==
  /\ self = "WeakRefSet"
  /\ Passable(x)
  /\ ret' = "this"
  /\ IF IsObject(x)
       THEN /\ nextRef <= MaxRefs
            /\ membership' = {m \in membership : m.v # x} \cup {Ref(nextRef, x)}
            /\ setRegistry' = setRegistry \cup
                 {[target |-> x, held |-> Ref(nextRef, x), token |-> nextRef]}
            /\ setData' = SuperAdd(setData, Ref(nextRef, x))
            /\ nextRef' = nextRef + 1
       ELSE /\ setData' = SuperAdd(setData, V(x))
            /\ UNCHANGED <<membership, setRegistry, nextRef>>
  /\ UNCHANGED <<self, alive, mapVars, oldSetRegistry, iter, yielded>>

\* add(value)
SetAdd(x) ==
  /\ self = "WeakRefSet"
  /\ Passable(x)
  /\ ret' = "this"
  /\ IF Member(x)
       THEN UNCHANGED <<setData, membership, setRegistry, nextRef>>
       ELSE IF IsObject(x)
         THEN /\ nextRef <= MaxRefs
              /\ membership' = membership \cup {Ref(nextRef, x)}
              /\ setRegistry' = setRegistry \cup
                   {[target |-> x, held |-> Ref(nextRef, x), token |-> nextRef]}
              /\ setData' = SuperAdd(setData, Ref(nextRef, x))
              /\ nextRef' = nextRef + 1
         ELSE /\ setData' = SuperAdd(setData, V(x))
              /\ UNCHANGED <<membership, setRegistry, nextRef>>
  /\ UNCHANGED <<self, alive, mapVars, oldSetRegistry, iter, yielded>>

\* delete(value) without the #membership.delete(value)
SetDelete_KeepsMembership(x) ==
  /\ self = "WeakRefSet"
  /\ Passable(x)
  /\ IF IsObject(x)
       THEN IF ~Member(x)
              THEN /\ ret' = "false"
                   /\ UNCHANGED <<setData, membership, setRegistry, iter>>
              ELSE LET ref == MemberRef(x)
                   IN  /\ UNCHANGED membership
                       /\ setRegistry' = Unregister(setRegistry, ref.h)
                       /\ setData' = SuperRemove(setData, ref)
                       /\ iter' = ShiftSetIter(setData, ref)
                       /\ ret' = IF Deref(ref) = V(Undefined) THEN "false" ELSE "true"
       ELSE /\ ret' = IF HasElem(setData, V(x)) THEN "true" ELSE "false"
            /\ setData' = SuperRemove(setData, V(x))
            /\ iter' = ShiftSetIter(setData, V(x))
            /\ UNCHANGED <<membership, setRegistry>>
  /\ UNCHANGED <<self, alive, nextRef, mapVars, oldSetRegistry, yielded>>

\* delete(value)
SetDelete(x) ==
  /\ self = "WeakRefSet"
  /\ Passable(x)
  /\ IF IsObject(x)
       THEN IF ~Member(x)
              THEN /\ ret' = "false"
                   /\ UNCHANGED <<setData, membership, setRegistry, iter>>
              ELSE LET ref == MemberRef(x)
                   IN  /\ membership' = membership \ {ref}
                       /\ setRegistry' = Unregister(setRegistry, ref.h)
                       /\ setData' = SuperRemove(setData, ref)
                       /\ iter' = ShiftSetIter(setData, ref)
                       /\ ret' = IF Deref(ref) = V(Undefined) THEN "false" ELSE "true"
       ELSE /\ ret' = IF HasElem(setData, V(x)) THEN "true" ELSE "false"
            /\ setData' = SuperRemove(setData, V(x))
            /\ iter' = ShiftSetIter(setData, V(x))
            /\ UNCHANGED <<membership, setRegistry>>
  /\ UNCHANGED <<self, alive, nextRef, mapVars, oldSetRegistry, yielded>>

\* clear()
SetClear ==
  /\ self = "WeakRefSet"
  /\ membership' = {}
  /\ oldSetRegistry' = oldSetRegistry \cup setRegistry
  /\ setRegistry' = {}
  /\ setData' = <<>>
  /\ ret' = Undefined
  /\ iter' = ResetIter
  /\ UNCHANGED <<self, alive, nextRef, mapVars, yielded>>

\* What the cleanup callback does: ref => super.delete(ref)
SetCleanup(ref) ==
  /\ setData' = SuperRemove(setData, ref)
  /\ iter' = ShiftSetIter(setData, ref)

\* #registry runs its callback for a cell whose target was collected.
SetFinalize(c) ==
  /\ c \in setRegistry
  /\ c.target \notin alive
  /\ setRegistry' = setRegistry \ {c}
  /\ SetCleanup(c.held)
  /\ UNCHANGED <<self, alive, nextRef, mapVars, membership, oldSetRegistry,
                 ret, yielded>>

\* The same callback, run by a registry that clear() replaced.
SetFinalizeOld(c) ==
  /\ c \in oldSetRegistry
  /\ c.target \notin alive
  /\ oldSetRegistry' = oldSetRegistry \ {c}
  /\ SetCleanup(c.held)
  /\ UNCHANGED <<self, alive, nextRef, mapVars, membership, setRegistry,
                 ret, yielded>>

\* A replaced registry is garbage itself: its cells may vanish unfired.
SetDropOld(c) ==
  /\ c \in oldSetRegistry
  /\ oldSetRegistry' = oldSetRegistry \ {c}
  /\ UNCHANGED <<self, alive, nextRef, mapVars, setData, membership,
                 setRegistry, ret, iter, yielded>>

\* One turn of the default iterator's loop on an element
SetYield(s) ==
  IF IsRef(s)
    THEN IF Deref(s) # V(Undefined) THEN <<Deref(s)>> ELSE <<>>
    ELSE <<s>>

RECURSIVE SetPass(_)
SetPass(i) ==
  IF i > Len(setData) THEN <<>> ELSE SetYield(setData[i]) \o SetPass(i + 1)
\* [Symbol.iterator](), keys() and values() run to the end
SetValues == SetPass(1)
\* entries()
SetEntries == [i \in 1..Len(SetValues) |-> <<SetValues[i], SetValues[i]>>]

\* size is not overridden: Set.prototype.size counts the raw elements
SetSize == Len(setData)

----------------------------------------------------------------------------
\* Lazy iteration: the caller opens the default iterator (directly, or through
\* entries(), values(), keys() of the set, or forEach) and calls next() while
\* other calls, the collector and the callbacks run in between.

NotYielded == [done |-> TRUE, key |-> Undefined, value |-> V(Undefined),
               slot |-> V(Undefined)]

IterOpen ==
  /\ iter = 0
  /\ iter' = 1
  /\ UNCHANGED <<self, alive, nextRef, mapVars, setVars, ret, yielded>>

\* next() of the map's generator: rows are skipped until one yields.
MapIterNext ==
  /\ self = "WeakRefMap"
  /\ iter > 0
  /\ LET hits == {j \in iter..Len(mapData) : MapYield(mapData[j]) # <<>>}
     IN  IF hits = {}
           THEN /\ iter' = 0
                /\ yielded' = NotYielded
           ELSE LET j == CHOOSE n \in hits : \A m \in hits : n <= m
                    y == MapYield(mapData[j])[1]
                IN  /\ iter' = j + 1
                    /\ yielded' = [done |-> FALSE, key |-> y.key,
                                   value |-> y.value, slot |-> mapData[j].slot]
  /\ UNCHANGED <<self, alive, nextRef, mapVars, setVars, ret>>

\* next() of the set's generator
SetIterNext ==
  /\ self = "WeakRefSet"
  /\ iter > 0
  /\ LET hits == {j \in iter..Len(setData) : SetYield(setData[j]) # <<>>}
     IN  IF hits = {}
           THEN /\ iter' = 0
                /\ yielded' = NotYielded
           ELSE LET j == CHOOSE n \in hits : \A m \in hits : n <= m
                IN  /\ iter' = j + 1
                    /\ yielded' = [done |-> FALSE, key |-> Undefined,
                                   value |-> SetYield(setData[j])[1],
                                   slot |-> setData[j]]
  /\ UNCHANGED <<self, alive, nextRef, mapVars, setVars, ret>>

----------------------------------------------------------------------------
\* The garbage collector

\* The map holds its keys strongly, and a registry its held values.
StronglyHeld(o) ==
  \/ HasKey(mapData, o)
  \/ \E c \in registry \cup oldRegistry : c.held = o

\* The caller dropped its last reference to o and the collector ran: every
\* WeakRef to o now derefs to undefined, the WeakMap entry keyed by o is gone.
Reclaim(o) ==
  /\ o \in alive
  /\ ~StronglyHeld(o)
  /\ alive' = alive \ {o}
  /\ membership' = {m \in membership : m.v # o}
  /\ UNCHANGED <<self, nextRef, mapVars, setData, setRegistry, oldSetRegistry,
                 ret, iter, yielded>>

----------------------------------------------------------------------------
None == "none"

Init ==
  /\ self \in {"WeakRefMap", "WeakRefSet"}
  /\ alive = Obj
  /\ nextRef = 1
  /\ mapData = <<>>
  /\ weakRefs = {}
  /\ registry = {}
  /\ oldRegistry = {}
  /\ setData = <<>>
  /\ membership = {}
  /\ setRegistry = {}
  /\ oldSetRegistry = {}
  /\ ret = Undefined
  /\ iter = 0
  /\ yielded = NotYielded
  /\ overwrote = [k \in Keys |-> <<>>]
  /\ deleted = [k \in Keys |-> None]
  /\ cancelled = {}
  /\ plainMap = <<>>
  /\ plainSet = <<>>
  /\ plainRet = Undefined
  /\ last = [op |-> None, found |-> FALSE]
  /\ pass1 = [taken |-> FALSE, seq |-> <<>>]

\* The collector and the registries' callbacks: what runs between two calls.
Runtime ==
  \/ \E c \in registry : MapFinalize(c) /\ UNCHANGED <<hist, plain>>
  \/ \E c \in oldRegistry : MapFinalizeOld(c) /\ UNCHANGED <<hist, plain>>
  \/ \E c \in oldRegistry : MapDropOld(c) /\ UNCHANGED <<hist, plain>>
  \/ \E c \in setRegistry : SetFinalize(c) /\ UNCHANGED <<hist, plain>>
  \/ \E c \in oldSetRegistry : SetFinalizeOld(c) /\ UNCHANGED <<hist, plain>>
  \/ \E c \in oldSetRegistry : SetDropOld(c) /\ UNCHANGED <<hist, plain>>
  \/ \E o \in Obj : Reclaim(o) /\ UNCHANGED <<hist, plain>>

Next ==
  \/ \E k \in Keys, v \in Values : MapSet(k, v) /\ UNCHANGED <<hist, plain>>
  \/ \E k \in Keys : MapDelete(k) /\ UNCHANGED <<hist, plain>>
  \/ MapClear /\ UNCHANGED <<hist, plain>>
  \/ \E x \in Values : SetAdd(x) /\ UNCHANGED <<hist, plain>>
  \/ \E x \in Values : SetDelete(x) /\ UNCHANGED <<hist, plain>>
  \/ SetClear /\ UNCHANGED <<hist, plain>>
  \/ Runtime

Spec == Init /\ [][Next]_vars

\* The same program with a lazy iteration in progress.
IterStep ==
  \/ Next
  \/ IterOpen /\ UNCHANGED <<hist, plain>>
  \/ MapIterNext /\ UNCHANGED <<hist, plain>>
  \/ SetIterNext /\ UNCHANGED <<hist, plain>>

IterSpec == Init /\ [][IterStep]_vars

\* The same program, the runtime delivering every pending notification of the
\* container's current registry.
FairSpec ==
  /\ Spec
  /\ \A c \in [target : Obj, held : Keys, token : 1..MaxRefs] :
       WF_vars(MapFinalize(c) /\ UNCHANGED <<hist, plain>>)
  /\ \A o \in Obj, n \in 1..MaxRefs :
       WF_vars(SetFinalize([target |-> o, held |-> Ref(n, o), token |-> n])
                 /\ UNCHANGED <<hist, plain>>)

\* The same program, recording which slots the caller retracted.
HistNext ==
  \/ \E k \in Keys, v \in Values :
       /\ MapSet(k, v)
       /\ overwrote' = [overwrote EXCEPT ![k] =
            IF ret' = "this" /\ IsRef(SuperGet(mapData, k))
              THEN <<SuperGet(mapData, k).v, v>> ELSE <<>>]
       /\ UNCHANGED <<deleted, cancelled, probe, plain>>
  \/ \E k \in Keys :
       /\ MapDelete(k)
       /\ overwrote' = [overwrote EXCEPT ![k] = <<>>]
       /\ IF Tracked(SuperGet(mapData, k))
            THEN /\ deleted' = [deleted EXCEPT ![k] = SuperGet(mapData, k).v]
                 /\ cancelled' = cancelled \cup {SuperGet(mapData, k).h}
            ELSE UNCHANGED <<deleted, cancelled>>
       /\ UNCHANGED <<probe, plain>>
  \/ /\ MapClear
     /\ overwrote' = [k \in Keys |-> <<>>]
     /\ UNCHANGED <<deleted, cancelled, probe, plain>>
  \/ \E x \in Values : SetAdd(x) /\ UNCHANGED <<hist, plain>>
  \/ \E x \in Values :
       /\ SetDelete(x)
       /\ cancelled' = IF Member(x) THEN cancelled \cup {MemberRef(x).h} ELSE cancelled
       /\ UNCHANGED <<overwrote, deleted, probe, plain>>
  \/ SetClear /\ UNCHANGED <<hist, plain>>
  \/ Runtime

HistSpec == Init /\ [][HistNext]_vars

\* Calls with primitive payloads only, a plain Map and a plain Set taking the
\* same calls.
PlainNext ==
  \/ \E k \in Keys, v \in Prim :
       /\ MapSet(k, v)
       /\ plainMap' = SuperSet(plainMap, k, V(v))
       /\ plainRet' = "this"
       /\ UNCHANGED <<plainSet, hist>>
  \/ \E k \in Keys :
       /\ MapDelete(k)
       /\ plainMap' = SuperDelete(plainMap, k)
       /\ plainRet' = IF HasKey(plainMap, k) THEN "true" ELSE "false"
       /\ UNCHANGED <<plainSet, hist>>
  \/ /\ MapClear
     /\ plainMap' = <<>>
     /\ plainRet' = Undefined
     /\ UNCHANGED <<plainSet, hist>>
  \/ \E x \in Prim :
       /\ SetAdd(x)
       /\ plainSet' = SuperAdd(plainSet, V(x))
       /\ plainRet' = "this"
       /\ UNCHANGED <<plainMap, hist>>
  \/ \E x \in Prim :
       /\ SetDelete(x)
       /\ plainSet' = SuperRemove(plainSet, V(x))
       /\ plainRet' = IF HasElem(plainSet, V(x)) THEN "true" ELSE "false"
       /\ UNCHANGED <<plainMap, hist>>
  \/ /\ SetClear
     /\ plainSet' = <<>>
     /\ plainRet' = Undefined
     /\ UNCHANGED <<plainMap, hist>>
  \/ \E o \in Obj : Reclaim(o) /\ UNCHANGED <<hist, plain>>

PlainSpec == Init /\ [][PlainNext]_vars

\* What the caller passes to forEach: a function, or nothing.
Callbacks == {"function", Undefined}

\* WeakRefMap.forEach(callback): callback.call is evaluated once per entry the
\* default iterator yields, and only then.  The callback only observes.
MapForEach(cb) ==
  /\ self = "WeakRefMap"
  /\ ret' = IF cb # "function" /\ MapEntries # <<>> THEN "TypeError" ELSE Undefined
  /\ UNCHANGED <<self, alive, nextRef, mapVars, setVars, iter, yielded>>

\* WeakRefSet.forEach(callback)
SetForEach(cb) ==
  /\ self = "WeakRefSet"
  /\ ret' = IF cb # "function" /\ SetValues # <<>> THEN "TypeError" ELSE Undefined
  /\ UNCHANGED <<self, alive, nextRef, mapVars, setVars, iter, yielded>>

\* Record the step just taken in `last`.
Log(op, found) ==
  /\ last' = [op |-> op, found |-> found]
  /\ UNCHANGED <<overwrote, deleted, cancelled, pass1, plain>>

\* The same program with forEach, recording the last call or notification and
\* whether it met a row for its key / value.
CallNext ==
  \/ \E k \in Keys, v \in Values : MapSet(k, v) /\ Log("set", HasKey(mapData, k))
  \/ \E k \in Keys : MapDelete(k) /\ Log("delete", HasKey(mapData, k))
  \/ MapClear /\ Log("clear", mapData # <<>>)
  \/ \E cb \in Callbacks : MapForEach(cb) /\ Log("forEach", mapData # <<>>)
  \/ \E x \in Values :
       SetAdd(x) /\ Log("add", IF IsObject(x) THEN Member(x)
                                            ELSE HasElem(setData, V(x)))
  \/ \E x \in Values :
       SetDelete(x) /\ Log("delete", IF IsObject(x) THEN Member(x)
                                                  ELSE HasElem(setData, V(x)))
  \/ SetClear /\ Log("clear", setData # <<>>)
  \/ \E cb \in Callbacks : SetForEach(cb) /\ Log("forEach", setData # <<>>)
  \/ \E c \in registry : MapFinalize(c) /\ Log("notify", HasKey(mapData, c.held))
  \/ \E c \in oldRegistry :
       MapFinalizeOld(c) /\ Log("notifyOld", HasKey(mapData, c.held))
  \/ \E c \in oldRegistry : MapDropOld(c) /\ UNCHANGED <<hist, plain>>
  \/ \E c \in setRegistry : SetFinalize(c) /\ Log("notify", HasElem(setData, c.held))
  \/ \E c \in oldSetRegistry :
       SetFinalizeOld(c) /\ Log("notifyOld", HasElem(setData, c.held))
  \/ \E c \in oldSetRegistry : SetDropOld(c) /\ UNCHANGED <<hist, plain>>
  \/ \E o \in Obj : Reclaim(o) /\ UNCHANGED <<hist, plain>>

CallSpec == Init /\ [][CallNext]_vars

\* A whole pass of the default iterator ([...container]): one synchronous
\* job, no collection and no notification inside it.
Pass == IF self = "WeakRefMap" THEN MapEntries ELSE SetValues

\* The caller runs a first pass and keeps what it yielded.
FirstPass ==
  /\ ~pass1.taken
  /\ pass1' = [taken |-> TRUE, seq |-> Pass]
  /\ UNCHANGED <<self, alive, nextRef, mapVars, setVars, ret, iter, yielded,
                 overwrote, deleted, cancelled, last, plain>>

\* A mutating call ends the comparison of two passes.
Mutation ==
  /\ pass1' = [taken |-> FALSE, seq |-> <<>>]
  /\ UNCHANGED <<overwrote, deleted, cancelled, last, plain>>

\* The same program between two passes of the iterator: the collector and the
\* notifications run at any time, a mutating call forgets the first pass.
PassNext ==
  \/ FirstPass
  \/ \E k \in Keys, v \in Values : MapSet(k, v) /\ Mutation
  \/ \E k \in Keys : MapDelete(k) /\ Mutation
  \/ MapClear /\ Mutation
  \/ \E x \in Values : SetAdd(x) /\ Mutation
  \/ \E x \in Values : SetDelete(x) /\ Mutation
  \/ SetClear /\ Mutation
  \/ Runtime

PassSpec == Init /\ [][PassNext]_vars
----------------------------------------------------------------------------
\* Properties

\* C1: once set(k, v2) has replaced a slot that wrapped object v1, has(k) and
\* get(k) report v2 as long as v2 is not collected and the caller leaves k
\* alone, whatever notifications run (HistSpec).
C1_OverwriteKeepsNewValue ==
  \A k \in Keys :
    (overwrote[k] # <<>> /\ Passable(overwrote[k][2]))
      => (MapHas(k) /\ MapGet(k) = V(overwrote[k][2]))

\* C2: a registration that delete cancelled never fires, on either container,
\* and a notification for the object a delete removed from key k does not
\* remove a row that k holds for another value (HistSpec).
C2_DeleteCancelsNotification ==
  [][ /\ \A c \in registry \cup oldRegistry :
           (MapFinalize(c) \/ MapFinalizeOld(c)) =>
             /\ c.token \notin cancelled
             /\ (/\ deleted[c.held] = c.target
                 /\ HasKey(mapData, c.held)
                 /\ ~(IsRef(SuperGet(mapData, c.held))
                        /\ SuperGet(mapData, c.held).v = c.target))
                  => mapData' = mapData
      /\ \A c \in setRegistry \cup oldSetRegistry :
           (SetFinalize(c) \/ SetFinalizeOld(c)) => c.token \notin cancelled
    ]_vars

\* C3: a notification registered before clear() never removes a row of the
\* map afterwards: every row it could meet was set after the clear.
C3_ClearCancelsRegistrations ==
  [][ \A c \in oldRegistry : MapFinalizeOld(c) => mapData' = mapData ]_vars

\* C4: a next() of the default iterator (map or set; entries(), values() and
\* forEach run it) never yields a row whose object payload has been collected
\* (IterSpec).
C4_IterationSkipsReclaimed ==
  [][ ((MapIterNext \/ SetIterNext) /\ ~yielded'.done)
        => ~(IsRef(yielded'.slot) /\ yielded'.slot.v \notin alive') ]_vars

\* C5: keys() of the map yields exactly the keys the default iterator yields.
C5_KeysAreLiveKeys ==
  MapKeys = [i \in 1..Len(MapEntries) |-> MapEntries[i].key]

\* C6: for a row holding a handle the container created, get and has follow
\* the referent: undefined and false once it is collected, the referent and
\* true while it is alive.
C6_GetHasFollowLiveness ==
  \A k \in Keys :
    LET s == SuperGet(mapData, k)
    IN  IsRef(s) =>
          IF s.v \in alive
            THEN MapGet(k) = V(s.v) /\ MapHas(k)
            ELSE MapGet(k) = V(Undefined) /\ ~MapHas(k)

\* C7: a row whose object was collected while its registration stands is
\* eventually gone from the underlying storage, unless the caller retracts the
\* tracking of that row first (FairSpec: the runtime delivers every pending
\* notification of the current registry).
C7_ReclaimedRowEventuallyPurged ==
  /\ \A k \in Keys :
       (\E c \in registry :
          /\ c.held = k
          /\ c.target \notin alive
          /\ SuperGet(mapData, k) = Ref(c.token, c.target))
         ~> ~(/\ Tracked(SuperGet(mapData, k))
              /\ SuperGet(mapData, k).v \notin alive)
  /\ \A o \in Obj :
       (\E c \in setRegistry :
          c.target = o /\ o \notin alive /\ HasElem(setData, c.held))
         ~> ~(\E i \in 1..Len(setData) :
                IsRef(setData[i]) /\ setData[i].v = o)

\* A notification purged the only row: the last call was a set/add, an object
\* is collected and the storage is empty again.
C7_Witness ==
  /\ ret = "this"
  /\ nextRef > 1
  /\ alive # Obj
  /\ mapData = <<>> /\ setData = <<>>
  /\ registry = {} /\ setRegistry = {}
  /\ oldRegistry = {} /\ oldSetRegistry = {}

\* C8: with primitive payloads only, iteration, has, get and every return
\* value agree with a plain Map / Set given the same calls (PlainSpec).
C8_PrimitivesLikePlain ==
  /\ ret = plainRet
  /\ self = "WeakRefMap" =>
       /\ MapEntries = [i \in 1..Len(plainMap) |->
                          [key |-> plainMap[i].key, value |-> plainMap[i].slot]]
       /\ \A k \in Keys :
            /\ MapHas(k) = HasKey(plainMap, k)
            /\ MapGet(k) = SuperGet(plainMap, k)
  /\ self = "WeakRefSet" =>
       /\ SetValues = plainSet
       /\ \A x \in Prim : SetHas(x) = HasElem(plainSet, V(x))

\* Two rows, one of them holding undefined, after a delete that found its key.
C8_Witness ==
  \/ /\ Len(plainMap) = 2
     /\ \E i \in 1..2 : plainMap[i].slot = V(Undefined)
     /\ ret = "true"
  \/ /\ Len(plainSet) = 2
     /\ HasElem(plainSet, V(Undefined))
     /\ ret = "true"

\* C9: get(k) right after set(k, v) returns v itself, for every key and value.
C9_SetThenGet ==
  [][ \A k \in Keys, v \in Values : MapSet(k, v) => MapGet(k)' = V(v) ]_vars

\* C10: delete of a key/value with no row returns false; delete of a row that
\* wraps a live object returns true; either way the row is gone, so a second
\* delete returns false.
C10_DeleteReturn ==
  [][ /\ \A k \in Keys : MapDelete(k) =>
           /\ ~HasKey(mapData, k) => ret' = "false"
           /\ (IsRef(SuperGet(mapData, k)) /\ Tracked(SuperGet(mapData, k))
                 /\ SuperGet(mapData, k).v \in alive) => ret' = "true"
           /\ ~HasKey(mapData', k)
      /\ \A x \in Values : SetDelete(x) =>
           /\ (\A i \in 1..Len(setData) : setData[i].v # x) => ret' = "false"
           /\ (x \in Obj /\ \E i \in 1..Len(setData) : setData[i] .v = x)
                => ret' = "true"
           /\ \A i \in 1..Len(setData') : setData'[i].v # x
    ]_vars

\* A delete has just returned true for an object: a handle was created, the
\* storage is empty again and nothing is registered.
C10_Witness ==
  /\ ret = "true"
  /\ nextRef = 2
  /\ mapData = <<>> /\ setData = <<>>
  /\ registry = {} /\ setRegistry = {}
  /\ oldRegistry = {} /\ oldSetRegistry = {}

\* C11: delete(k) of a tracked row whose object was collected and whose
\* notification has not run yet returns false, removes the row and leaves no
\* registration for the row's handle in any registry (CallSpec).
C11_DeleteDeadSlot ==
  [][ \A k \in Keys :
        LET s == SuperGet(mapData, k)
        IN  (MapDelete(k) /\ Tracked(s) /\ s.v \notin alive) =>
              /\ ret' = "false"
              /\ ~HasKey(mapData', k)
              /\ \A c \in registry' \cup oldRegistry' : c.token # s.h
    ]_vars

\* The map's delete met a row and returned false: the row's object was dead.
C11_Witness ==
  /\ self = "WeakRefMap"
  /\ last = [op |-> "delete", found |-> TRUE]
  /\ ret = "false"

\* C12: set(k, v) of a primitive v (undefined included) makes has(k) true and
\* get(k) return v; has(k) stays true until the caller deletes or overwrites
\* k or clears the map; has(k) is false for a key with no row.
C12_HasStoredPrimitive ==
  [][ /\ \A k \in Keys, v \in Prim :
           MapSet(k, v) => (MapHas(k)' /\ MapGet(k)' = V(v))
      /\ \A k \in Keys :
           (/\ HasKey(mapData, k)
            /\ ~IsRef(SuperGet(mapData, k))
            /\ ~(MapDelete(k) \/ MapClear \/ \E v \in Values : MapSet(k, v)))
             => MapHas(k)'
      /\ \A k \in Keys : ~HasKey(mapData', k) => ~MapHas(k)'
    ]_vars

\* C13: right after clear(), get returns undefined and has returns false for
\* every key / value and iteration yields nothing, on both containers,
\* whatever rows the container held (CallSpec).
C13_ClearThenAbsent ==
  [][ /\ MapClear =>
           /\ \A k \in Keys : MapGet(k)' = V(Undefined) /\ ~MapHas(k)'
           /\ MapEntries' = <<>> /\ MapValues' = <<>> /\ MapKeys' = <<>>
      /\ SetClear =>
           /\ \A x \in Values : ~SetHas(x)'
           /\ SetValues' = <<>> /\ SetEntries' = <<>>
    ]_vars

\* A clear() that met rows, one of them wrapping an object now collected.
C13_Witness ==
  /\ last = [op |-> "clear", found |-> TRUE]
  /\ \E c \in oldRegistry \cup oldSetRegistry : c.target \notin alive

\* C14: add(v) of an object the set already tracks returns the set and changes
\* neither storage, order nor registrations; after every step iteration yields
\* no value twice; add keeps every value that was yielded before and yields
\* the added one (CallSpec).
C14_AddIdempotent ==
  /\ [][ \A x \in Values :
           SetAdd(x) =>
             /\ SetHas(x) =>
                  /\ ret' = "this"
                  /\ UNCHANGED <<setData, membership, setRegistry, oldSetRegistry>>
                  /\ SetValues' = SetValues
             /\ \E j \in 1..Len(setData') : SetYield(setData[j])' = <<V(x)>>
             /\ \A i \in 1..Len(setData) :
                  SetYield(setData[i]) # <<>> =>
                    \E j \in 1..Len(setData') :
                      SetYield(setData[j])' = SetYield(setData[i])
       ]_vars
  /\ [](\A i, j \in 1..Len(setData) :
          (i # j /\ SetYield(setData[i]) # <<>>)
            => SetYield(setData[i]) # SetYield(setData[j]))

\* An add of an object already in the set, with both objects retained.
C14_Witness ==
  /\ self = "WeakRefSet"
  /\ last = [op |-> "add", found |-> TRUE]
  /\ \A o \in Obj : SetHas(o)
  /\ Len(setData) = 2

\* C15 (as stated): a second pass of the iterator, with no set/add, delete or
\* clear since the first, yields the same sequence as the first (PassSpec).
C15_TwoPassesSame == pass1.taken => Pass = pass1.seq

\* C15 (amended): a second pass, with no set/add, delete or clear since the
\* first, yields a subsequence of the first pass in the same order: entries
\* collected or purged in between are missing, nothing is added or reordered.
C15_SecondPassSubsequence ==
  pass1.taken =>
    \E f \in [1..Len(Pass) -> 1..Len(pass1.seq)] :
      /\ \A i \in 1..Len(Pass) : pass1.seq[f[i]] = Pass[i]
      /\ \A i, j \in 1..Len(Pass) : i < j => f[i] < f[j]

\* The second pass is shorter than the first, and not empty.
C15_Witness ==
  /\ pass1.taken
  /\ Pass # <<>>
  /\ Len(Pass) < Len(pass1.seq)

\* C16: forEach with a non-invokable callback throws, on both containers and
\* in every state of the container, and leaves the container as it was
\* (CallSpec).
C16_ForEachRejectsNonCallable ==
  [][ (MapForEach(Undefined) \/ SetForEach(Undefined)) =>
        /\ ret' = "TypeError"
        /\ UNCHANGED <<alive, nextRef, mapVars, setVars>>
    ]_vars

\* C17: in every state, a tracked row has at most one registration, and every
\* registration that can still fire (in a current or a replaced registry)
\* names a row that holds the handle it was registered with.
C17_RegistrationInvariant ==
  /\ \A k \in Keys :
       Tracked(SuperGet(mapData, k)) =>
         Cardinality({c \in registry \cup oldRegistry :
                        c.token = SuperGet(mapData, k).h}) <= 1
  /\ \A c \in registry \cup oldRegistry :
       SuperGet(mapData, c.held) = Ref(c.token, c.target)
  /\ \A i \in 1..Len(setData) :
       IsRef(setData[i]) =>
         Cardinality({c \in setRegistry \cup oldSetRegistry :
                        c.token = setData[i].h}) <= 1
  /\ \A c \in setRegistry \cup oldSetRegistry : HasElem(setData, c.held)

\* C18: in every state an object is a key of the set's membership table
\* exactly when the storage holds a handle for it and the object is alive,
\* and the table maps it to that very handle, one per object.
C18_MembershipInvariant ==
  /\ \A o \in Obj :
       Member(o) <=>
         (o \in alive /\ \E i \in 1..Len(setData) :
                           IsRef(setData[i]) /\ setData[i].v = o)
  /\ \A m \in membership : HasElem(setData, m)
  /\ \A o \in Obj : Cardinality({m \in membership : m.v = o}) <= 1

\* After a clear and new adds: one object tracked live, the handle of a
\* collected one still in the storage.
C18_Witness ==
  /\ membership # {}
  /\ oldSetRegistry # {}
  /\ \E i \in 1..Len(setData) : IsRef(setData[i]) /\ setData[i].v \notin alive

\* C19: a set that returns keeps the order of the keys when the key has a row
\* (primitive, live or dead) and puts the new value in that row; it appends
\* the key when it has none (never set, deleted or purged); the rows of the
\* other keys stay as they are; a set that throws moves nothing.
C19_InsertionOrder ==
  [][ \A k \in Keys, v \in Values :
        MapSet(k, v) =>
          /\ HasKey(mapData, k) => MapKeys' = MapKeys
          /\ (~HasKey(mapData, k) /\ ret' = "this") => MapKeys' = Append(MapKeys, k)
          /\ ret' # "this" => MapKeys' = MapKeys
          /\ ret' = "this" => SuperGet(mapData', k).v = v
          /\ \A q \in Keys \ {k} : SuperGet(mapData', q) = SuperGet(mapData, q)
    ]_vars

\* The first row holds a newer handle than the second: it was overwritten in
\* place after the second key was inserted.
C19_Witness ==
  /\ Len(mapData) = 2
  /\ mapData[2].slot.h > 0
  /\ mapData[1].slot.h > mapData[2].slot.h

\* C20: a notification, of a current or of a replaced registry, removes at
\* most the one row its held value names, keeps every other row in order,
\* consumes only its own registration, touches nothing else and raises no
\* error; with no matching row it leaves the storage as it is (CallSpec).
C20_NotificationFrame ==
  [][ /\ \A c \in registry \cup oldRegistry :
           (MapFinalize(c) \/ MapFinalizeOld(c)) =>
             /\ mapData' = SelectSeq(mapData, LAMBDA r : r.key # c.held)
             /\ Len(mapData') >= Len(mapData) - 1
             /\ registry' \cup oldRegistry' = (registry \cup oldRegistry) \ {c}
             /\ ret' = ret
             /\ UNCHANGED <<alive, nextRef, setVars>>
      /\ \A c \in setRegistry \cup oldSetRegistry :
           (SetFinalize(c) \/ SetFinalizeOld(c)) =>
             /\ setData' = SelectSeq(setData, LAMBDA e : e # c.held)
             /\ Len(setData') >= Len(setData) - 1
             /\ setRegistry' \cup oldSetRegistry'
                  = (setRegistry \cup oldSetRegistry) \ {c}
             /\ ret' = ret
             /\ UNCHANGED <<alive, nextRef, membership, mapVars>>
    ]_vars

\* A notification removed its row and another row is still there, or a
\* notification of a replaced set registry found no row to remove.
C20_Witness ==
  \/ /\ self = "WeakRefMap"
     /\ last = [op |-> "notify", found |-> TRUE]
     /\ mapData # <<>>
  \/ /\ self = "WeakRefSet"
     /\ last = [op |-> "notifyOld", found |-> FALSE]
     /\ setData # <<>>

\* C21: set(key, value) returns the map and leaves the row of key holding
\* value, without error, for every key and every value, a key that is its
\* own value included.
C21_SetAlwaysReturnsMap ==
  [][ \A k \in Keys, v \in Values :
        MapSet(k, v) =>
          /\ ret' = "this"
          /\ HasKey(mapData', k)
          /\ SuperGet(mapData', k).v = v
    ]_vars

\* C22: delete returns what has returned just before it, on the map for every
\* key and on the set for every value the caller can pass, and has returns
\* false right after the delete (CallSpec).
C22_DeleteReturnsHas ==
  [][ /\ \A k \in Keys :
           MapDelete(k) =>
             /\ ret' = (IF MapHas(k) THEN "true" ELSE "false")
             /\ ~MapHas(k)'
      /\ \A x \in Values :
           SetDelete(x) =>
             /\ ret' = (IF SetHas(x) THEN "true" ELSE "false")
             /\ ~SetHas(x)'
    ]_vars

\* A delete met a row and returned false although other rows remain (map: the
\* row's object was dead), or a set's delete of a live value returned true
\* with other values left.
C22_Witness ==
  \/ /\ self = "WeakRefMap"
     /\ last = [op |-> "delete", found |-> TRUE]
     /\ ret = "false"
     /\ mapData # <<>>
  \/ /\ self = "WeakRefSet"
     /\ last = [op |-> "delete", found |-> TRUE]
     /\ ret = "true"
     /\ setData # <<>>

\* C23: once has(k) is false it stays false over every step that is not a
\* set on k: notifications of any registry, collections, calls on other keys,
\* and also delete(k) and clear() (CallSpec).
C23_AbsentStaysAbsent ==
  [][ \A k \in Keys :
        (~MapHas(k) /\ ~(\E v \in Values : MapSet(k, v))) => ~MapHas(k)'
    ]_vars

\* A notification has just run while another key still has the row of a
\* collected object, for which has is false.
C23_Witness ==
  /\ self = "WeakRefMap"
  /\ last.op \in {"notify", "notifyOld"}
  /\ \E k \in Keys : HasKey(mapData, k) /\ ~MapHas(k)

\* C24: in every state size is at least the number of entries iteration
\* yields, and the two are equal exactly when no row holds a handle whose
\* object has been collected, on both containers.
C24_SizeCountsRows ==
  /\ MapSize >= Len(MapEntries)
  /\ (MapSize = Len(MapEntries)) <=>
       ~(\E i \in 1..Len(mapData) :
           IsRef(mapData[i].slot) /\ mapData[i].slot.v \notin alive)
  /\ SetSize >= Len(SetValues)
  /\ (SetSize = Len(SetValues)) <=>
       ~(\E i \in 1..Len(setData) :
           IsRef(setData[i]) /\ setData[i].v \notin alive)
====
